---- MODULE Spec2Model ----
(***************************************************************************)
(* Model of rust_audio_player: the playback controller AudioPlayer         *)
(* (src/audio/player.rs), the waveform producer/buffer WaveformGenerator   *)
(* (src/audio/waveform.rs), the application glue AudioPlayerApp           *)
(* (src/app.rs) and the session handling of MyApp (src/main.rs).           *)
(***************************************************************************)
EXTENDS Integers, Sequences, FiniteSets, TLC

\* ---------------------------------------------------------------- bounds
\* Wall-clock instants are 0..MaxTime.
MaxTime == 4
\* Output-device objects are named 1..MaxIds.
MaxIds == 3
\* Waveform workers spawned in one run (one per generate_for call).
MaxGen == 2
\* Packets a format reader hands out before it reports end of stream.
MaxPackets == 2
\* Frames in one decoded packet.
MaxChunk == 2

\* Option<T>: None is the empty sequence, Some(v) the one-element sequence.
None == <<>>
Some(v) == <<v>>
IsSome(o) == o # <<>>
Unwrap(o) == o[1]

\* The machine word (usize) is WordBits wide.
WordBits == 4
\* Progress times handed to the window accessor, in seconds: 0..MaxSecs.
MaxSecs == 12
\* Window durations handed to the window accessor, in seconds.
MaxWindowSecs == 3
\* Samples in the buffer the window is cut from.
MaxBuf == 6
\* Sample rates set on the generator: 1..MaxRate samples per second.
MaxRate == 3
\* Channels and frames of a decoded buffer handed to the normalizer.
MaxChannels == 2
MaxFrames == 2

\* Track references handed to play() / play_file().
Files == {"A", "B"}

VARIABLES
    \* AudioPlayer fields (player.rs:7-14)
    _stream, stream_handle, sink, start_time, pause_duration, playing_file,
    \* AudioPlayer::play: position in the call, argument, locals, and what
    \* the latest call returned ("none" while it runs and before the first)
    pc, arg_file, l_stream, l_handle, l_sink, result,
    \* wall clock
    now,
    \* observers of the calls made on the AudioPlayer directly: phase of a well-formed pause/resume
    \* alternation, time spent running and paused in it, the state the latest
    \* stop() found ("live" once a play() has succeeded since), the latest call
    phase, runTime, pausedTime, stopFrom, lastCall,
    \* WaveformGenerator fields (waveform.rs:10-14), the channels, the worker
    \* threads, and two observers: the samples the current worker has sent and
    \* the number of update_buffer() calls that found something to append
    receiver, buffer, sample_rate, chan, wpc, wpos, sentLog, drains, gens,
    \* more observers of the workers: why each one returned ("none" while it
    \* has not), and the latest packet of the current worker whose decoding
    \* failed (0 when none did)
    wexit, skipped,
    \* AudioPlayerApp (app.rs:20-26); the receiver held when play_file() was
    \* last entered, and whether play_file() has just returned
    total_duration, prevReceiver, pfReturned,
    \* the latest call of the waveform window accessor: its function, the
    \* values of its locals and what it returned
    win,
    \* the latest call of process_audio_buffer: the decoded buffer it was
    \* given, the chunk it returned and whether the worker then sends it
    norm,
    \* MyApp (main.rs:19-33): its session and clock fields, the position in a
    \* play_file() call with that call's locals, and the latest call returned
    myapp,
    \* the latest AudioPlayer method called with the sink mutex watched: what it
    \* did to the mutex, the sink and the clock fields, in program order
    lockLog

playerVars == <<_stream, stream_handle, sink, start_time, pause_duration, playing_file>>
playVars == <<pc, arg_file, l_stream, l_handle, l_sink, result>>
obsVars == <<phase, runTime, pausedTime, stopFrom, lastCall>>
waveVars == <<receiver, buffer, sample_rate, chan, wpc, wpos, sentLog, drains, gens,
             wexit, skipped>>
appVars == <<total_duration, prevReceiver, pfReturned>>
callVars == <<win, norm, myapp, lockLog>>
vars == <<playerVars, playVars, now, obsVars, waveVars, appVars, callVars>>

\* ------------------------------------------------------------ AudioPlayer
\* Output-device objects owned by a field of the player or by a local of a
\* play() call that has not returned yet; Rust drops a value when its owner
\* is overwritten or goes out of scope, so these are the live ones.
AliveStreams == {o[1] : o \in {x \in {_stream, l_stream} : IsSome(x)}}
AliveHandles == {o[1] : o \in {x \in {stream_handle, l_handle} : IsSome(x)}}
AliveSinks == {o[1].id : o \in {x \in {sink, l_sink} : IsSome(x)}}

\* The name a newly built output stream gets: the first one not in use.
FreshIdAmong(alive) == CHOOSE i \in 1..MaxIds :
                          /\ i \notin alive
                          /\ \A j \in 1..(i-1) : j \in alive

FreshId == FreshIdAmong(AliveStreams \cup AliveHandles \cup AliveSinks)

\* Where the controller stands: no session, session running, session paused.
SinkState ==
    IF ~IsSome(sink) THEN "idle"
    ELSE IF Unwrap(sink).paused THEN "paused" ELSE "running"

\* AudioPlayer::is_paused
IsPaused == IF IsSome(sink) THEN Unwrap(sink).paused ELSE FALSE

\* AudioPlayer::progress
Progress ==
    IF IsSome(sink)
    THEN IF Unwrap(sink).paused
         THEN pause_duration
         ELSE IF IsSome(start_time)
              THEN pause_duration + (now - Unwrap(start_time))
              ELSE 0
    ELSE 0

\* AudioPlayer::current_file
CurrentFile == playing_file

\* A stop() that resets the clock and forgets to release the session.
StopFieldsKeepSession ==
    /\ start_time' = None
    /\ pause_duration' = 0
    /\ UNCHANGED <<_stream, stream_handle, sink, playing_file>>

\* Body of AudioPlayer::stop: the sink is stopped, then every field is reset.
StopFields ==
    /\ _stream' = None
    /\ stream_handle' = None
    /\ sink' = None
    /\ start_time' = None
    /\ pause_duration' = 0
    /\ playing_file' = None

\* A play() that forgets to tear the previous session down.
PlayNoTeardown == UNCHANGED playerVars

\* player.rs:31, the self.stop() that opens play().
PlayTeardown == StopFields

\* A play() call begins: stop(), then the fallible steps follow one by one
\* (the stepwise play(), for what holds inside the call).
PlayBegin(f) ==
    /\ pc = "idle"
    /\ PlayTeardown
    /\ pc' = "try_default"
    /\ arg_file' = Some(f)
    /\ result' = "none"
    /\ phase' = "none"
    /\ runTime' = 0
    /\ pausedTime' = 0
    /\ stopFrom' = SinkState
    /\ lastCall' = [op |-> "play", from |-> SinkState]
    /\ UNCHANGED <<l_stream, l_handle, l_sink, now>>

\* A play() that stores each object in its field as soon as it is built, so
\* that an error return leaves the stream and handle behind.
PlayReturnErrKeepsStream ==
    /\ pc' = "idle"
    /\ result' = "err"
    /\ arg_file' = None
    /\ _stream' = l_stream
    /\ stream_handle' = l_handle
    /\ l_stream' = None
    /\ l_handle' = None
    /\ l_sink' = None
    /\ UNCHANGED <<sink, start_time, pause_duration, playing_file>>
    /\ UNCHANGED <<now, obsVars, waveVars, total_duration, prevReceiver>>
    /\ pfReturned' = FALSE
    /\ UNCHANGED callVars

\* Leaving play() through a `?`: the locals are dropped, Err is returned.
PlayReturnErr ==
    /\ pc' = "idle"
    /\ result' = "err"
    /\ arg_file' = None
    /\ l_stream' = None
    /\ l_handle' = None
    /\ l_sink' = None
    /\ UNCHANGED <<playerVars, now, obsVars, waveVars, total_duration, prevReceiver>>
    /\ pfReturned' = FALSE
    /\ UNCHANGED callVars

\* player.rs:33, OutputStream::try_default()?
PlayTryDefaultOk ==
    /\ pc = "try_default"
    /\ l_stream' = Some(FreshId)
    /\ l_handle' = Some(FreshId)
    /\ pc' = "sink_try_new"
    /\ UNCHANGED <<playerVars, arg_file, l_sink, result, now, obsVars, waveVars, appVars, callVars>>

PlayTryDefaultErr ==
    /\ pc = "try_default"
    /\ PlayReturnErr

\* player.rs:34, Sink::try_new(&stream_handle)?  A new sink is not paused.
PlaySinkTryNewOk ==
    /\ pc = "sink_try_new"
    /\ l_sink' = Some([id |-> Unwrap(l_handle), paused |-> FALSE])
    /\ pc' = "file_open"
    /\ UNCHANGED <<playerVars, arg_file, l_stream, l_handle, result, now, obsVars, waveVars, appVars, callVars>>

PlaySinkTryNewErr ==
    /\ pc = "sink_try_new"
    /\ PlayReturnErr

\* player.rs:36, File::open(file_path)?
PlayFileOpenOk ==
    /\ pc = "file_open"
    /\ pc' = "decoder_new"
    /\ UNCHANGED <<playerVars, arg_file, l_stream, l_handle, l_sink, result, now, obsVars, waveVars, appVars, callVars>>

PlayFileOpenErr ==
    /\ pc = "file_open"
    /\ PlayReturnErr

\* player.rs:37, Decoder::new(BufReader::new(file))?
PlayDecoderNewOk ==
    /\ pc = "decoder_new"
    /\ pc' = "commit"
    /\ UNCHANGED <<playerVars, arg_file, l_stream, l_handle, l_sink, result, now, obsVars, waveVars, appVars, callVars>>

PlayDecoderNewErr ==
    /\ pc = "decoder_new"
    /\ PlayReturnErr

\* A play() that stores the new session and forgets which file it plays.
PlayCommitForgetsFile ==
    /\ pc = "commit"
    /\ _stream' = l_stream
    /\ stream_handle' = l_handle
    /\ sink' = l_sink
    /\ start_time' = Some(now)
    /\ pause_duration' = 0
    /\ playing_file' = None
    /\ l_stream' = None
    /\ l_handle' = None
    /\ l_sink' = None
    /\ result' = "ok"
    /\ phase' = "running"
    /\ runTime' = 0
    /\ pausedTime' = 0
    /\ stopFrom' = "live"
    /\ UNCHANGED lastCall
    /\ pc' = "idle"
    /\ arg_file' = None
    /\ UNCHANGED <<now, waveVars, appVars, callVars>>

\* player.rs:39-48: the locals move into the fields, the clock starts, Ok(()).
PlayCommit ==
    /\ pc = "commit"
    /\ _stream' = l_stream
    /\ stream_handle' = l_handle
    /\ sink' = l_sink
    /\ start_time' = Some(now)
    /\ pause_duration' = 0
    /\ playing_file' = arg_file
    /\ l_stream' = None
    /\ l_handle' = None
    /\ l_sink' = None
    /\ result' = "ok"
    /\ phase' = "running"
    /\ runTime' = 0
    /\ pausedTime' = 0
    /\ stopFrom' = "live"
    /\ UNCHANGED lastCall
    /\ pc' = "idle"
    /\ arg_file' = None
    /\ UNCHANGED <<now, waveVars, appVars, callVars>>

\* A pause() that reads the start instant without taking it.
PauseClockNoTake ==
    /\ start_time' = start_time
    /\ pause_duration' = IF IsSome(start_time)
                         THEN pause_duration + (now - Unwrap(start_time))
                         ELSE pause_duration

\* player.rs:55-57: start_time.take() folded into pause_duration.
PauseClock ==
    /\ start_time' = None
    /\ pause_duration' = IF IsSome(start_time)
                         THEN pause_duration + (now - Unwrap(start_time))
                         ELSE pause_duration

\* A pause() that does not fold the running segment into pause_duration.
PauseFieldsNoFold ==
    IF IsSome(sink)
    THEN /\ sink' = Some([Unwrap(sink) EXCEPT !.paused = TRUE])
         /\ start_time' = None
         /\ pause_duration' = pause_duration
         /\ UNCHANGED <<_stream, stream_handle, playing_file>>
    ELSE UNCHANGED playerVars

\* Body of AudioPlayer::pause.
PauseFields ==
    IF IsSome(sink)
    THEN /\ sink' = Some([Unwrap(sink) EXCEPT !.paused = TRUE])
         /\ PauseClock
         /\ UNCHANGED <<_stream, stream_handle, playing_file>>
    ELSE UNCHANGED playerVars

\* A resume() that un-pauses the sink and leaves the clock alone.
ResumeClockNoRestart == UNCHANGED start_time

\* player.rs:65
ResumeClock == start_time' = Some(now)

\* A resume() that restarts the clock without looking for a sink.
ResumeFieldsNoGuard ==
    /\ sink' = IF IsSome(sink) THEN Some([Unwrap(sink) EXCEPT !.paused = FALSE]) ELSE sink
    /\ start_time' = Some(now)
    /\ UNCHANGED <<_stream, stream_handle, pause_duration, playing_file>>

\* Body of AudioPlayer::resume.
ResumeFields ==
    IF IsSome(sink)
    THEN /\ sink' = Some([Unwrap(sink) EXCEPT !.paused = FALSE])
         /\ ResumeClock
         /\ UNCHANGED <<_stream, stream_handle, pause_duration, playing_file>>
    ELSE UNCHANGED playerVars

\* AudioPlayer::pause
Pause ==
    /\ pc = "idle"
    /\ PauseFields
    /\ UNCHANGED result
    /\ phase' = CASE phase = "running" -> "paused"
                  [] phase = "paused" -> "malformed"
                  [] OTHER -> phase
    /\ lastCall' = [op |-> "pause", from |-> SinkState]
    /\ UNCHANGED <<pc, arg_file, l_stream, l_handle, l_sink, now, runTime, pausedTime, stopFrom, waveVars, total_duration, prevReceiver>>
    /\ pfReturned' = FALSE
    /\ UNCHANGED callVars

\* AudioPlayer::resume
Resume ==
    /\ pc = "idle"
    /\ ResumeFields
    /\ UNCHANGED result
    /\ phase' = CASE phase = "paused" -> "running"
                  [] phase = "running" -> "malformed"
                  [] OTHER -> phase
    /\ lastCall' = [op |-> "resume", from |-> SinkState]
    /\ UNCHANGED <<pc, arg_file, l_stream, l_handle, l_sink, now, runTime, pausedTime, stopFrom, waveVars, total_duration, prevReceiver>>
    /\ pfReturned' = FALSE
    /\ UNCHANGED callVars

\* AudioPlayer::stop
Stop ==
    /\ pc = "idle"
    /\ StopFields
    /\ UNCHANGED result
    /\ phase' = "none"
    /\ runTime' = 0
    /\ pausedTime' = 0
    /\ stopFrom' = SinkState
    /\ lastCall' = [op |-> "stop", from |-> SinkState]
    /\ UNCHANGED <<pc, arg_file, l_stream, l_handle, l_sink, now, waveVars, total_duration, prevReceiver>>
    /\ pfReturned' = FALSE
    /\ UNCHANGED callVars

\* AudioPlayer::play called directly
Play(f) ==
    /\ PlayBegin(f)
    /\ UNCHANGED <<waveVars, total_duration, prevReceiver>>
    /\ pfReturned' = FALSE
    /\ UNCHANGED callVars

\* Wall-clock time passes.  runTime counts it between play()/resume() and the
\* next pause(), pausedTime between pause() and the next resume().
Tick ==
    /\ now < MaxTime
    /\ now' = now + 1
    /\ runTime' = IF phase = "running" THEN runTime + 1 ELSE runTime
    /\ pausedTime' = IF phase = "paused" THEN pausedTime + 1 ELSE pausedTime
    /\ UNCHANGED <<playerVars, playVars, phase, stopFrom, lastCall, waveVars, appVars, callVars>>

\* ------------------------------------------------------ WaveformGenerator
Gens == 1..MaxGen

\* Concatenation of the chunks of a queue, front first.
RECURSIVE Flatten(_)
Flatten(q) == IF q = <<>> THEN <<>> ELSE Head(q) \o Flatten(Tail(q))

\* The mono samples of the k-th packet of worker g, n frames long; a sample
\* is named by the worker, the packet and the frame it came from.
Chunk(g, k, n) == [i \in 1..n |-> <<g, k, i>>]

\* Frames a packet can decode to: none, one, or a full packet.
ChunkSizes == {0, 1, MaxChunk}

\* codec_params.sample_rate of the track the g-th generate_for() is given
\* (waveform.rs:99): every other track carries one.
TrackRate(g) == IF g % 2 = 1 THEN Some(2) ELSE None

\* The Receiver paired with worker g's Sender is alive.
ReceiverAlive(g) == receiver = Some(g)

\* A generate_for() that swaps the receiver and keeps the samples it has.
GenerateForFieldsKeepsBuffer ==
    /\ buffer' = buffer
    /\ gens' = gens + 1
    /\ receiver' = Some(gens + 1)
    /\ chan' = IF IsSome(receiver) THEN [chan EXCEPT ![Unwrap(receiver)] = <<>>] ELSE chan
    /\ wpc' = [wpc EXCEPT ![gens + 1] = "setup"]
    /\ sentLog' = <<>>
    /\ drains' = 0
    /\ skipped' = 0
    /\ UNCHANGED <<sample_rate, wpos, wexit>>

\* waveform.rs:28-37 generate_for: clear the buffer, replace the receiver
\* (dropping the old one with whatever it still queued), spawn the worker.
GenerateForFields ==
    /\ buffer' = <<>>
    /\ gens' = gens + 1
    /\ receiver' = Some(gens + 1)
    /\ chan' = IF IsSome(receiver) THEN [chan EXCEPT ![Unwrap(receiver)] = <<>>] ELSE chan
    /\ wpc' = [wpc EXCEPT ![gens + 1] = "setup"]
    /\ sentLog' = <<>>
    /\ drains' = 0
    /\ skipped' = 0
    /\ UNCHANGED <<sample_rate, wpos, wexit>>

\* WaveformGenerator::generate_for called directly
GenerateFor ==
    /\ gens < MaxGen
    /\ GenerateForFields
    /\ UNCHANGED <<playerVars, playVars, now, obsVars, appVars, callVars>>

\* WaveformGenerator::get_sample_rate (waveform.rs:52-54)
GetSampleRate == sample_rate

\* A drain that puts each new chunk in front of the buffer.
DrainPrepend(q) == Flatten(q) \o buffer

\* waveform.rs:42-44: every chunk try_iter() yields is appended in turn.
Drain(q) == buffer \o Flatten(q)

\* An update_buffer() that stops reading once the worker has returned and
\* its Sender is gone, leaving what is still queued in the channel.
UpdateBufferFieldsWhileWorkerRuns ==
    /\ IF IsSome(receiver) /\ wpc[Unwrap(receiver)] # "done"
       THEN /\ buffer' = Drain(chan[Unwrap(receiver)])
            /\ chan' = [chan EXCEPT ![Unwrap(receiver)] = <<>>]
            /\ drains' = IF chan[Unwrap(receiver)] # <<>> THEN drains + 1 ELSE drains
       ELSE UNCHANGED <<buffer, chan, drains>>
    /\ UNCHANGED <<receiver, sample_rate, wpc, wpos, sentLog, gens, wexit, skipped>>

\* Body of WaveformGenerator::update_buffer
UpdateBufferFields ==
    /\ IF IsSome(receiver)
       THEN /\ buffer' = Drain(chan[Unwrap(receiver)])
            /\ chan' = [chan EXCEPT ![Unwrap(receiver)] = <<>>]
            /\ drains' = IF chan[Unwrap(receiver)] # <<>> THEN drains + 1 ELSE drains
       ELSE UNCHANGED <<buffer, chan, drains>>
    /\ UNCHANGED <<receiver, sample_rate, wpc, wpos, sentLog, gens, wexit, skipped>>

\* WaveformGenerator::update_buffer, called at the top of every frame
UpdateBuffer ==
    /\ pc = "idle"
    /\ UpdateBufferFields
    /\ UNCHANGED <<playerVars, playVars, now, obsVars, total_duration, prevReceiver>>
    /\ pfReturned' = FALSE
    /\ UNCHANGED callVars

\* load_waveform_streaming returns: the thread ends and its format reader,
\* decoder and Sender are dropped.
WorkerReturn(g, why) ==
    /\ wpc' = [wpc EXCEPT ![g] = "done"]
    /\ wpos' = [wpos EXCEPT ![g] = 0]
    /\ wexit' = [wexit EXCEPT ![g] = why]

\* waveform.rs:62-96: open, probe, default track, decoder all succeed.
WorkerSetupOk(g) ==
    /\ wpc[g] = "setup"
    /\ wpc' = [wpc EXCEPT ![g] = "next_packet"]
    /\ UNCHANGED <<receiver, buffer, sample_rate, chan, wpos, sentLog, drains, gens, wexit, skipped>>
    /\ UNCHANGED <<playerVars, playVars, now, obsVars, appVars, callVars>>

\* A worker that reports its setup failure on the channel before returning.
WorkerSetupErrSends(g) ==
    /\ wpc[g] = "setup"
    /\ WorkerReturn(g, "setup")
    /\ chan' = [chan EXCEPT ![g] = Append(chan[g], Chunk(g, 0, 1))]
    /\ UNCHANGED <<receiver, buffer, sample_rate, sentLog, drains, gens, skipped>>
    /\ UNCHANGED <<playerVars, playVars, now, obsVars, appVars, callVars>>

\* waveform.rs:62-96: one of them fails and the worker returns silently.
WorkerSetupErr(g) ==
    /\ wpc[g] = "setup"
    /\ WorkerReturn(g, "setup")
    /\ UNCHANGED <<receiver, buffer, sample_rate, chan, sentLog, drains, gens, skipped>>
    /\ UNCHANGED <<playerVars, playVars, now, obsVars, appVars, callVars>>

\* waveform.rs:108-109: next_packet() yields a packet.
WorkerNextPacketOk(g) ==
    /\ wpc[g] = "next_packet"
    /\ wpos[g] < MaxPackets
    /\ wpos' = [wpos EXCEPT ![g] = wpos[g] + 1]
    /\ wpc' = [wpc EXCEPT ![g] = "decode"]
    /\ UNCHANGED <<receiver, buffer, sample_rate, chan, sentLog, drains, gens, wexit, skipped>>
    /\ UNCHANGED <<playerVars, playVars, now, obsVars, appVars, callVars>>

\* A loop that skips an I/O error like any other reader error: at the end of
\* the stream it asks for the next packet again and again.
WorkerNextPacketIoErrorContinues(g) ==
    /\ wpc[g] = "next_packet"
    /\ UNCHANGED vars

\* waveform.rs:110: Err(Error::IoError(_)) => break (end of file included).
WorkerNextPacketIoError(g) ==
    /\ wpc[g] = "next_packet"
    /\ WorkerReturn(g, "io")
    /\ UNCHANGED <<receiver, buffer, sample_rate, chan, sentLog, drains, gens, skipped>>
    /\ UNCHANGED <<playerVars, playVars, now, obsVars, appVars, callVars>>

\* A loop that breaks on every reader error.
WorkerNextPacketOtherErrorBreaks(g) ==
    /\ wpc[g] = "next_packet"
    /\ wpos[g] < MaxPackets
    /\ WorkerReturn(g, "io")
    /\ UNCHANGED <<receiver, buffer, sample_rate, chan, sentLog, drains, gens, skipped>>
    /\ UNCHANGED <<playerVars, playVars, now, obsVars, appVars, callVars>>

\* waveform.rs:111: Err(_) => continue; the reader has moved past the
\* packet it could not deliver.
WorkerNextPacketOtherError(g) ==
    /\ wpc[g] = "next_packet"
    /\ wpos[g] < MaxPackets
    /\ wpos' = [wpos EXCEPT ![g] = wpos[g] + 1]
    /\ UNCHANGED <<receiver, buffer, sample_rate, chan, wpc, sentLog, drains, gens, wexit, skipped>>
    /\ UNCHANGED <<playerVars, playVars, now, obsVars, appVars, callVars>>

\* A worker that ignores the result of send() and goes on to the next packet.
WorkerDecodeOkIgnoresSendError(g, n) ==
    /\ wpc[g] = "decode"
    /\ wpc' = [wpc EXCEPT ![g] = "next_packet"]
    /\ IF n > 0 /\ ReceiverAlive(g)
       THEN /\ chan' = [chan EXCEPT ![g] = Append(chan[g], Chunk(g, wpos[g], n))]
            /\ sentLog' = sentLog \o Chunk(g, wpos[g], n)
       ELSE UNCHANGED <<chan, sentLog>>
    /\ UNCHANGED <<receiver, buffer, sample_rate, wpos, drains, gens, wexit, skipped>>
    /\ UNCHANGED <<playerVars, playVars, now, obsVars, appVars, callVars>>

\* waveform.rs:116-122: the packet decodes to n frames; a non-empty chunk is
\* sent, and a failed send (receiver dropped) ends the worker.
WorkerDecodeOk(g, n) ==
    /\ wpc[g] = "decode"
    /\ IF n = 0
       THEN /\ wpc' = [wpc EXCEPT ![g] = "next_packet"]
            /\ UNCHANGED <<chan, sentLog, wpos, wexit>>
       ELSE IF ReceiverAlive(g)
            THEN /\ chan' = [chan EXCEPT ![g] = Append(chan[g], Chunk(g, wpos[g], n))]
                 /\ sentLog' = sentLog \o Chunk(g, wpos[g], n)
                 /\ wpc' = [wpc EXCEPT ![g] = "next_packet"]
                 /\ UNCHANGED <<wpos, wexit>>
            ELSE /\ WorkerReturn(g, "send")
                 /\ UNCHANGED <<chan, sentLog>>
    /\ UNCHANGED <<receiver, buffer, sample_rate, drains, gens, skipped>>
    /\ UNCHANGED <<playerVars, playVars, now, obsVars, appVars, callVars>>

\* A loop that gives the stream up at the first packet it cannot decode.
WorkerDecodeErrorBreaks(g) ==
    /\ wpc[g] = "decode"
    /\ WorkerReturn(g, "decode")
    /\ UNCHANGED <<receiver, buffer, sample_rate, chan, sentLog, drains, gens, skipped>>
    /\ UNCHANGED <<playerVars, playVars, now, obsVars, appVars, callVars>>

\* waveform.rs:124: Err(Error::DecodeError(_)) => continue
WorkerDecodeError(g) ==
    /\ wpc[g] = "decode"
    /\ wpc' = [wpc EXCEPT ![g] = "next_packet"]
    /\ skipped' = IF ReceiverAlive(g) THEN wpos[g] ELSE skipped
    /\ UNCHANGED <<receiver, buffer, sample_rate, chan, wpos, sentLog, drains, gens, wexit>>
    /\ UNCHANGED <<playerVars, playVars, now, obsVars, appVars, callVars>>

\* waveform.rs:125: Err(_) => break
WorkerDecodeOtherError(g) ==
    /\ wpc[g] = "decode"
    /\ WorkerReturn(g, "decode")
    /\ UNCHANGED <<receiver, buffer, sample_rate, chan, sentLog, drains, gens, skipped>>
    /\ UNCHANGED <<playerVars, playVars, now, obsVars, appVars, callVars>>

\* ---------------------------------------------------------- AudioPlayerApp
\* What get_audio_duration can meet (app.rs:317-339): File::open fails, the
\* probe fails, the container has no track, or there is a first track whose
\* codec parameters may lack the frame count or the sample rate.
TrackMetas ==
    {[found |-> fd, n_frames |-> None, sample_rate |-> None] :
        fd \in {"open_failed", "probe_failed", "no_track"}}
    \cup
    {[found |-> "track", n_frames |-> nf, sample_rate |-> sr] :
        nf \in {None, Some(5)}, sr \in {None, Some(2)}}

\* A Duration is kept in milliseconds.
MillisPerSec == 1000

\* app.rs:316-342 get_audio_duration: Some(duration) for Ok, None for Err.
\* The frame count and the sample rate are divided as f64, so the
\* fraction of a second is kept.
GetAudioDurationZeroOnMissing(m) ==
    IF m.found = "track" /\ IsSome(m.n_frames) /\ IsSome(m.sample_rate)
    THEN Some((Unwrap(m.n_frames) * MillisPerSec) \div Unwrap(m.sample_rate))
    ELSE Some(0)

GetAudioDuration(m) ==
    IF m.found = "track" /\ IsSome(m.n_frames) /\ IsSome(m.sample_rate)
    THEN Some((Unwrap(m.n_frames) * MillisPerSec) \div Unwrap(m.sample_rate))
    ELSE None

\* app.rs:312 Duration::from_secs(180)
FallbackDuration == 180

\* AudioPlayer::play from call to Ok(()) in one step (player.rs:30-48): the
\* old session is torn down, then a new one is built and the clock starts.
PlayWholeOk(f) ==
    /\ pc = "idle"
    /\ _stream' = Some(FreshIdAmong({}))
    /\ stream_handle' = Some(FreshIdAmong({}))
    /\ sink' = Some([id |-> FreshIdAmong({}), paused |-> FALSE])
    /\ start_time' = Some(now)
    /\ pause_duration' = 0
    /\ playing_file' = Some(f)
    /\ result' = "ok"
    /\ UNCHANGED <<pc, arg_file, l_stream, l_handle, l_sink, now, obsVars>>

\* AudioPlayer::play from call to Err in one step (player.rs:30-37): the old
\* session is torn down and nothing replaces it.
PlayWholeErr(f) ==
    /\ pc = "idle"
    /\ StopFields
    /\ result' = "err"
    /\ UNCHANGED <<pc, arg_file, l_stream, l_handle, l_sink, now, obsVars>>

\* AudioPlayerApp::play_file when player.play() succeeds (app.rs:302-314):
\* generate_for, then the duration or its fallback.
PlayFileOk(f, m) ==
    /\ gens < MaxGen
    /\ PlayWholeOk(f)
    /\ GenerateForFields
    /\ total_duration' = IF IsSome(GetAudioDuration(m))
                         THEN Unwrap(GetAudioDuration(m))
                         ELSE FallbackDuration * MillisPerSec
    /\ prevReceiver' = receiver
    /\ pfReturned' = TRUE
    /\ UNCHANGED callVars

\* AudioPlayerApp::play_file when player.play() fails (app.rs:302-306): the
\* error is printed and play_file returns.
PlayFileErr(f) ==
    /\ PlayWholeErr(f)
    /\ prevReceiver' = receiver
    /\ pfReturned' = TRUE
    /\ UNCHANGED callVars
    /\ UNCHANGED <<waveVars, total_duration>>

\* A Play button that resumes whenever a track is loaded, without asking
\* is_paused().
PlayButtonResumeAlways ==
    /\ pc = "idle"
    /\ IsSome(CurrentFile)
    /\ ResumeFields
    /\ pfReturned' = FALSE
    /\ UNCHANGED callVars
    /\ UNCHANGED <<pc, arg_file, l_stream, l_handle, l_sink, result, now, obsVars, waveVars, total_duration, prevReceiver>>

\* app.rs:205-220, the Play button: resume when paused, else replay.
PlayButtonResume ==
    /\ pc = "idle"
    /\ IsSome(CurrentFile)
    /\ IsPaused
    /\ ResumeFields
    /\ pfReturned' = FALSE
    /\ UNCHANGED callVars
    /\ UNCHANGED <<pc, arg_file, l_stream, l_handle, l_sink, result, now, obsVars, waveVars, total_duration, prevReceiver>>

PlayButtonReplayOk(m) ==
    /\ IsSome(CurrentFile)
    /\ ~IsPaused
    /\ PlayFileOk(Unwrap(CurrentFile), m)

PlayButtonReplayErr ==
    /\ IsSome(CurrentFile)
    /\ ~IsPaused
    /\ PlayFileErr(Unwrap(CurrentFile))

\* app.rs:222-225, the Pause button
PauseButton ==
    /\ pc = "idle"
    /\ PauseFields
    /\ pfReturned' = FALSE
    /\ UNCHANGED callVars
    /\ UNCHANGED <<pc, arg_file, l_stream, l_handle, l_sink, result, now, obsVars, waveVars, total_duration, prevReceiver>>

\* app.rs:227-230, the Stop button
StopButton ==
    /\ pc = "idle"
    /\ StopFields
    /\ pfReturned' = FALSE
    /\ UNCHANGED callVars
    /\ UNCHANGED <<pc, arg_file, l_stream, l_handle, l_sink, result, now, obsVars, waveVars, total_duration, prevReceiver>>

\* -------------------------------------------------------- waveform window
\* usize::MAX
WordMax == 2^WordBits - 1

\* `as usize` on an f32: negative values become 0, values past the word
\* range become usize::MAX.
AsUsize(x) == IF x < 0 THEN 0 ELSE IF x > WordMax THEN WordMax ELSE x

\* usize::saturating_sub
SaturatingSub(a, b) == IF a < b THEN 0 ELSE a - b

\* usize + usize when the sum leaves the word range and overflow checks are
\* off: the sum wraps around.
WrappingAdd(a, b) == (a + b) % (WordMax + 1)

\* usize::min
Min(a, b) == IF a <= b THEN a ELSE b

NoWindowCall ==
    [fn |-> "none", samples_played |-> 0, visible_length_samples |-> 0,
     start_idx |-> 0, end_idx |-> 0, panicked |-> FALSE, slice |-> <<>>]

\* waveform.rs:238-246 and app.rs:249-256: the window of visible_length_samples
\* samples around samples_played, cut from a buffer of len samples.  With
\* overflow checks on (checked, the default of a debug build) the addition
\* panics when it leaves the word range; with them off it wraps.
VisibleWindow(fn, samples_played, visible_length_samples, len, checked) ==
    LET start_idx == SaturatingSub(samples_played, visible_length_samples \div 2)
        panics == checked /\ start_idx + visible_length_samples > WordMax
        end_idx == Min(WrappingAdd(start_idx, visible_length_samples), len)
    IN  [fn |-> fn,
         samples_played |-> samples_played,
         visible_length_samples |-> visible_length_samples,
         start_idx |-> start_idx,
         end_idx |-> IF panics THEN 0 ELSE end_idx,
         panicked |-> panics,
         slice |-> IF ~panics /\ start_idx < end_idx /\ len > 0
                   THEN SubSeq(buffer, start_idx + 1, end_idx)
                   ELSE <<>>]

\* WaveformGenerator::get_visible_waveform (waveform.rs:234-247)
GetVisibleWaveform(progress_secs, window_size_secs, checked) ==
    /\ win' = VisibleWindow("get_visible_waveform",
                            AsUsize(progress_secs * sample_rate),
                            AsUsize(window_size_secs * sample_rate),
                            Len(buffer), checked)
    /\ UNCHANGED <<playerVars, playVars, now, obsVars, waveVars, appVars, norm, myapp, lockLog>>

\* The window of AudioPlayerApp::render_waveform (app.rs:240-256): two
\* seconds around the progress the player reports.
RenderWaveform(progress_secs, checked) ==
    /\ win' = VisibleWindow("render_waveform",
                            AsUsize(progress_secs * sample_rate),
                            sample_rate * 2,
                            Len(buffer), checked)
    /\ UNCHANGED <<playerVars, playVars, now, obsVars, waveVars, appVars, norm, myapp, lockLog>>

\* ------------------------------------------------------ sample normalizer
\* 32-bit samples and their midpoint 2^31 do not fit the integers of the
\* checker, so an integer is kept as hi * 2^16 + lo with 0 <= lo < 2^16.
Limb == 2^16
W(n) == [hi |-> n \div Limb, lo |-> n % Limb]
WCarry(h, l) == [hi |-> h + (l \div Limb), lo |-> l % Limb]
WAdd(x, y) == WCarry(x.hi + y.hi, x.lo + y.lo)
WSub(x, y) == WCarry(x.hi - y.hi, x.lo - y.lo)
WScale(x, c) == WCarry(x.hi * c, x.lo * c)
WLeq(x, y) == x.hi < y.hi \/ (x.hi = y.hi /\ x.lo <= y.lo)
WZero == W(0)

\* 2^k for k up to 44.
WPow2(k) == IF k <= 30 THEN W(2^k) ELSE WScale(W(2^30), 2^(k - 30))

RECURSIVE WSum(_)
WSum(xs) == IF xs = <<>> THEN WZero ELSE WAdd(xs[1], WSum(Tail(xs)))

\* An f32 is kept as the quotient num / den it stands for; 0.0 / 0.0 (den
\* zero) is NaN.  The rounding of f32 arithmetic is not modelled: every cast
\* `as f32` and every division is exact.
IsNaN(v) == v.den = WZero

\* The sample formats process_audio_buffer matches on (waveform.rs:137-229).
IntFormats == {"U8", "U16", "U24", "U32", "S8", "S16", "S24", "S32"}
FloatFormats == {"F32", "F64"}
Formats == IntFormats \cup FloatFormats
IsSigned(fmt) == fmt \in {"S8", "S16", "S24", "S32"}
IsUnsigned(fmt) == fmt \in {"U8", "U16", "U24", "U32"}
Bits(fmt) ==
    CASE fmt \in {"U8", "S8"} -> 8
      [] fmt \in {"U16", "S16"} -> 16
      [] fmt \in {"U24", "S24"} -> 24
      [] fmt \in {"U32", "S32", "F32"} -> 32
      [] fmt = "F64" -> 64

\* Least and greatest raw sample of an integer format.
RawMin(fmt) == IF IsSigned(fmt) THEN WSub(WZero, WPow2(Bits(fmt) - 1)) ELSE WZero
RawMax(fmt) ==
    IF IsSigned(fmt) THEN WSub(WPow2(Bits(fmt) - 1), W(1))
    ELSE WSub(WPow2(Bits(fmt)), W(1))

\* Raw samples the buffers are filled with: the ends of the range, their
\* neighbours, and the values around zero and around the midpoint.
Raws(fmt) ==
    CASE IsSigned(fmt) ->
            {RawMin(fmt), WAdd(RawMin(fmt), W(1)), W(-1), WZero, W(1), RawMax(fmt)}
      [] IsUnsigned(fmt) ->
            {WZero, W(1), WSub(WPow2(Bits(fmt) - 1), W(1)), WPow2(Bits(fmt) - 1),
             WAdd(WPow2(Bits(fmt) - 1), W(1)), RawMax(fmt)}
      [] OTHER -> {W(-1), WZero, W(1)}

\* Unsigned arms that subtract the greatest positive value, not the midpoint.
SubtrahendMaxPositive(fmt) ==
    IF IsUnsigned(fmt) THEN WSub(WPow2(Bits(fmt) - 1), W(1)) ELSE WZero

\* What each arm subtracts from a sample before dividing
\* (waveform.rs:141, 150, 159, 169); the signed and float arms subtract
\* nothing.
Subtrahend(fmt) ==
    CASE fmt = "U8" -> W(128)
      [] fmt = "U16" -> W(32768)
      [] fmt = "U24" -> W(8388608)
      [] fmt = "U32" -> WScale(W(1073741824), 2)
      [] OTHER -> WZero

\* Arms that all divide by the greatest positive value of the width.
DivisorMaxPositive(fmt) ==
    IF fmt \in IntFormats THEN WSub(WPow2(Bits(fmt) - 1), W(1)) ELSE W(1)

\* What each arm divides by (waveform.rs:141, 150, 160, 169, 178, 187, 197,
\* 206): i8::MAX, i16::MAX and i32::MAX in the S8, S16 and S32 arms, the
\* literal 8_388_608.0 in the S24 arm; the float arms add the sample as it is.
Divisor(fmt) ==
    CASE fmt = "U8" -> W(128)
      [] fmt = "U16" -> W(32768)
      [] fmt = "U24" -> W(8388608)
      [] fmt = "U32" -> WScale(W(1073741824), 2)
      [] fmt = "S8" -> W(127)
      [] fmt = "S16" -> W(32767)
      [] fmt = "S24" -> W(8388608)
      [] fmt = "S32" -> W(2147483647)
      [] OTHER -> W(1)

\* waveform.rs:130-232 process_audio_buffer: for each frame the samples of
\* all channels are normalized, summed from 0.0 and the sum is divided by the
\* channel count; the result holds one value per frame.  With no channel
\* the sum stays 0.0 and the division is 0.0 / 0.0.
ProcessAudioBufferChunk(fmt, channels, frames, planes) ==
    [frame \in 1..frames |->
        [num |-> WSum([ch \in 1..channels |-> WSub(planes[ch][frame], Subtrahend(fmt))]),
         den |-> WScale(Divisor(fmt), channels)]]

NoNormCall ==
    [fn |-> "none", format |-> "U8", channels |-> 0, frames |-> 0,
     planes |-> <<>>, chunk |-> <<>>, sent |-> FALSE]

\* One call of process_audio_buffer from the decode loop, and the test the
\* loop makes on the chunk it gets back (waveform.rs:116-122): a chunk that
\* is not empty is sent.  Every frame of a channel holds the same sample.
ProcessAudioBuffer(fmt, channels, frames, raws) ==
    /\ norm.fn = "none"
    /\ LET planes == [ch \in 1..channels |-> [frame \in 1..frames |-> raws[ch]]]
           chunk == ProcessAudioBufferChunk(fmt, channels, frames, planes)
       IN norm' = [fn |-> "process_audio_buffer", format |-> fmt,
                   channels |-> channels, frames |-> frames,
                   planes |-> planes, chunk |-> chunk, sent |-> chunk # <<>>]
    /\ UNCHANGED <<playerVars, playVars, now, obsVars, waveVars, appVars, win, myapp, lockLog>>

\* ------------------------------------------------------------- sink mutex
\* The sink sits behind Arc<Mutex<Sink>> (player.rs:10).  A guard bound with
\* `let` lives to the end of its block; the temporary guard of
\* `sink.lock().unwrap().stop()` lives to the end of that statement.
NoLockLog == [op |-> "none", events |-> <<>>]

\* player.rs:69-79 stop: lock, stop and unlock in one statement, then the
\* fields are reset.
StopEvents ==
    (IF IsSome(sink) THEN <<"lock", "sink.stop", "unlock">> ELSE <<>>)
    \o <<"write start_time", "write pause_duration">>

\* player.rs:51-59 pause: the guard is taken, the sink is paused, and the
\* clock is folded before the block ends.
PauseEvents ==
    IF IsSome(sink)
    THEN <<"lock", "sink.pause", "write start_time">>
         \o (IF IsSome(start_time) THEN <<"write pause_duration">> ELSE <<>>)
         \o <<"unlock">>
    ELSE <<>>

\* player.rs:61-67 resume
ResumeEvents ==
    IF IsSome(sink)
    THEN <<"lock", "sink.play", "write start_time", "unlock">>
    ELSE <<>>

\* player.rs:81-88 is_paused
IsPausedEvents ==
    IF IsSome(sink) THEN <<"lock", "sink.is_paused", "unlock">> ELSE <<>>

\* player.rs:91-104 progress: the clock fields are read inside the block that
\* holds the guard.
ProgressEvents ==
    IF IsSome(sink)
    THEN <<"lock", "sink.is_paused">>
         \o (IF Unwrap(sink).paused
             THEN <<"read pause_duration">>
             ELSE <<"read start_time">>
                  \o (IF IsSome(start_time) THEN <<"read pause_duration">> ELSE <<>>))
         \o <<"unlock">>
    ELSE <<>>

\* One method call on the controller, with its events recorded.
LockedCall(op, events) ==
    /\ pc = "idle"
    /\ lockLog' = [op |-> op, events |-> events]
    /\ UNCHANGED <<now, obsVars, waveVars, appVars, win, norm, myapp>>

\* AudioPlayer::play (player.rs:30-48): stop(), then the new session.
LockedPlay(f) ==
    /\ LockedCall("play", StopEvents \o <<"write start_time", "write pause_duration">>)
    /\ _stream' = Some(FreshIdAmong({}))
    /\ stream_handle' = Some(FreshIdAmong({}))
    /\ sink' = Some([id |-> FreshIdAmong({}), paused |-> FALSE])
    /\ start_time' = Some(now)
    /\ pause_duration' = 0
    /\ playing_file' = Some(f)
    /\ result' = "ok"
    /\ UNCHANGED <<pc, arg_file, l_stream, l_handle, l_sink>>

LockedPause ==
    /\ LockedCall("pause", PauseEvents)
    /\ PauseFields
    /\ UNCHANGED playVars

LockedResume ==
    /\ LockedCall("resume", ResumeEvents)
    /\ ResumeFields
    /\ UNCHANGED playVars

LockedStop ==
    /\ LockedCall("stop", StopEvents)
    /\ StopFields
    /\ UNCHANGED playVars

LockedIsPaused ==
    /\ LockedCall("is_paused", IsPausedEvents)
    /\ UNCHANGED <<playerVars, playVars>>

LockedProgress ==
    /\ LockedCall("progress", ProgressEvents)
    /\ UNCHANGED <<playerVars, playVars>>

\* ------------------------------------------------------------------ MyApp
\* main.rs:18-33, #[derive(Default)]: every Option is None and every number
\* zero.  The audio_files, directory and waveform_buffer fields and the
\* waveform worker of MyApp are left out; waveform_receiver counts the
\* channels made so far.
NewMyApp ==
    [current_file |-> None, _stream |-> None, stream_handle |-> None,
     sink |-> None, start_time |-> None, pause_duration |-> 0,
     total_duration |-> 0, waveform_receiver |-> None, sample_rate |-> 0,
     pc |-> "idle", l_stream |-> None, l_handle |-> None, l_sink |-> None,
     last |-> "none"]

\* Output-device objects owned by a field of MyApp or by a local of a
\* play_file() call that has not returned yet.
MyAliveStreams == {o[1] : o \in {x \in {myapp._stream, myapp.l_stream} : IsSome(x)}}
MyAliveHandles == {o[1] : o \in {x \in {myapp.stream_handle, myapp.l_handle} : IsSome(x)}}
MyAliveSinks == {o[1].id : o \in {x \in {myapp.sink, myapp.l_sink} : IsSome(x)}}

MyAppStep(next) == /\ myapp' = next
                   /\ UNCHANGED <<playerVars, playVars, now, obsVars, waveVars, appVars, win, norm, lockLog>>

\* main.rs:307-317: the selection and the sample rate are set, and a sink
\* that is there is stopped; the stream, the handle and the sink stay in
\* their fields.
MyPlayFileBegin(f) ==
    /\ myapp.pc = "idle"
    /\ IF IsSome(myapp.waveform_receiver)
       THEN Unwrap(myapp.waveform_receiver) < MaxGen ELSE TRUE
    /\ MyAppStep([myapp EXCEPT
           !.current_file = Some(f),
           !.sample_rate = 44100,
           !.sink = IF IsSome(myapp.sink)
                    THEN Some([Unwrap(myapp.sink) EXCEPT !.stopped = TRUE])
                    ELSE None,
           !.pc = "try_default",
           !.last = "none"])

\* main.rs:320-321 OutputStream::try_default().expect(..)
MyTryDefaultOk ==
    /\ myapp.pc = "try_default"
    /\ MyAppStep([myapp EXCEPT
           !.l_stream = Some(FreshIdAmong(MyAliveStreams)),
           !.l_handle = Some(FreshIdAmong(MyAliveHandles)),
           !.pc = "sink_try_new"])

\* An expect() that meets an Err panics: the locals of the call are dropped
\* and the call never returns.
MyPanic == MyAppStep([myapp EXCEPT !.l_stream = None, !.l_handle = None,
                                   !.l_sink = None, !.pc = "panicked"])

MyTryDefaultPanic ==
    /\ myapp.pc = "try_default"
    /\ MyPanic

\* main.rs:322 Sink::try_new(&stream_handle).expect(..)
MySinkTryNewOk ==
    /\ myapp.pc = "sink_try_new"
    /\ MyAppStep([myapp EXCEPT
           !.l_sink = Some([id |-> FreshIdAmong(MyAliveSinks), stopped |-> FALSE]),
           !.pc = "file_open"])

MySinkTryNewPanic ==
    /\ myapp.pc = "sink_try_new"
    /\ MyPanic

\* main.rs:325 File::open(&file_path).expect(..)
MyFileOpenOk ==
    /\ myapp.pc = "file_open"
    /\ MyAppStep([myapp EXCEPT !.pc = "decoder_new"])

MyFileOpenPanic ==
    /\ myapp.pc = "file_open"
    /\ MyPanic

\* main.rs:326 Decoder::new(..).expect(..)
MyDecoderNewOk ==
    /\ myapp.pc = "decoder_new"
    /\ MyAppStep([myapp EXCEPT !.pc = "commit"])

MyDecoderNewPanic ==
    /\ myapp.pc = "decoder_new"
    /\ MyPanic

\* main.rs:329-346: the source is appended, the handle, the stream and the
\* sink are stored (which drops the ones stored before), the clock starts
\* and a new channel is made.
MyPlayFileCommit ==
    /\ myapp.pc = "commit"
    /\ MyAppStep([myapp EXCEPT
           !.stream_handle = myapp.l_handle,
           !._stream = myapp.l_stream,
           !.sink = myapp.l_sink,
           !.start_time = Some(now),
           !.pause_duration = 0,
           !.waveform_receiver = IF IsSome(myapp.waveform_receiver)
                                 THEN Some(Unwrap(myapp.waveform_receiver) + 1)
                                 ELSE Some(1),
           !.l_stream = None, !.l_handle = None, !.l_sink = None,
           !.pc = "idle",
           !.last = "play_file"])

\* main.rs:388-398 stop_audio: a sink that is there is stopped, then the
\* sink, the selection, the clock and the total duration are reset.
MyStopAudio ==
    /\ myapp.pc = "idle"
    /\ MyAppStep([myapp EXCEPT
           !.sink = None,
           !.current_file = None,
           !.start_time = None,
           !.pause_duration = 0,
           !.total_duration = 0,
           !.last = "stop_audio"])

\* ------------------------------------------------------------------- Init
Init ==
    /\ _stream = None
    /\ stream_handle = None
    /\ sink = None
    /\ start_time = None
    /\ pause_duration = 0
    /\ playing_file = None
    /\ pc = "idle"
    /\ arg_file = None
    /\ l_stream = None
    /\ l_handle = None
    /\ l_sink = None
    /\ result = "none"
    /\ now = 0
    /\ phase = "none"
    /\ runTime = 0
    /\ pausedTime = 0
    /\ stopFrom = "new"
    /\ lastCall = [op |-> "none", from |-> "idle"]
    /\ receiver = None
    /\ buffer = <<>>
    /\ sample_rate = 44100
    /\ chan = [g \in Gens |-> <<>>]
    /\ wpc = [g \in Gens |-> "unborn"]
    /\ wpos = [g \in Gens |-> 0]
    /\ sentLog = <<>>
    /\ drains = 0
    /\ gens = 0
    /\ wexit = [g \in Gens |-> "none"]
    /\ skipped = 0
    /\ total_duration = 0
    /\ prevReceiver = None
    /\ pfReturned = FALSE
    /\ win = NoWindowCall
    /\ norm = NoNormCall
    /\ myapp = NewMyApp
    /\ lockLog = NoLockLog

\* Steps of a play() call that is under way.
PlaySteps ==
    \/ PlayTryDefaultOk
    \/ PlayTryDefaultErr
    \/ PlaySinkTryNewOk
    \/ PlaySinkTryNewErr
    \/ PlayFileOpenOk
    \/ PlayFileOpenErr
    \/ PlayDecoderNewOk
    \/ PlayDecoderNewErr
    \/ PlayCommit

\* Steps of the waveform worker threads.
WorkerStep(g) ==
    \/ WorkerSetupOk(g)
    \/ WorkerSetupErr(g)
    \/ WorkerNextPacketOk(g)
    \/ WorkerNextPacketIoError(g)
    \/ WorkerNextPacketOtherError(g)
    \/ \E n \in ChunkSizes : WorkerDecodeOk(g, n)
    \/ WorkerDecodeError(g)
    \/ WorkerDecodeOtherError(g)

WorkerSteps == \E g \in Gens : WorkerStep(g)

\* The AudioPlayer driven through its public methods in any order.
NextPlayer ==
    \/ \E f \in Files : Play(f)
    \/ PlaySteps
    \/ Pause
    \/ Resume
    \/ Stop
    \/ Tick

SpecPlayer == Init /\ [][NextPlayer]_vars

\* The WaveformGenerator driven through its public methods, with its workers.
NextWave ==
    \/ GenerateFor
    \/ UpdateBuffer
    \/ WorkerSteps

SpecWave == Init /\ [][NextWave]_vars

\* The same under the scheduling of OS threads: a worker thread that can take
\* a step is not held back forever (thread::spawn, waveform.rs:35).
SpecWaveFair ==
    Init /\ [][NextWave]_vars /\ \A g \in Gens : WF_vars(WorkerStep(g))

\* The same with the frame loop running as well: update() asks for a repaint
\* every 30 ms and calls update_buffer() first (app.rs:45-47), so a channel
\* that holds chunks does not stay undrained forever.
SpecWaveDrain ==
    /\ Init /\ [][NextWave]_vars
    /\ \A g \in Gens : WF_vars(WorkerStep(g))
    /\ WF_vars(UpdateBuffer)

\* The application: file selection, the three buttons, the frame update and
\* the worker threads.  Nothing here depends on how much time passes between
\* two events, so the clock stands still; NextPlayer covers the clock.
Next ==
    \/ \E f \in Files, m \in TrackMetas : PlayFileOk(f, m)
    \/ \E f \in Files : PlayFileErr(f)
    \/ PlayButtonResume
    \/ \E m \in TrackMetas : PlayButtonReplayOk(m)
    \/ PlayButtonReplayErr
    \/ PauseButton
    \/ StopButton
    \/ UpdateBuffer
    \/ WorkerSteps

Spec == Init /\ [][Next]_vars

\* A generator whose worker has delivered a track of n samples and returned,
\* with a sample rate set through set_sample_rate (waveform.rs:48-50); the
\* window accessors are then called with any progress and window duration.
InitWindow ==
    /\ _stream = None
    /\ stream_handle = None
    /\ sink = None
    /\ start_time = None
    /\ pause_duration = 0
    /\ playing_file = None
    /\ pc = "idle"
    /\ arg_file = None
    /\ l_stream = None
    /\ l_handle = None
    /\ l_sink = None
    /\ result = "none"
    /\ now = 0
    /\ phase = "none"
    /\ runTime = 0
    /\ pausedTime = 0
    /\ stopFrom = "new"
    /\ lastCall = [op |-> "none", from |-> "idle"]
    /\ receiver = Some(1)
    /\ \E n \in 0..MaxBuf :
           /\ buffer = [k \in 1..n |-> <<1, k, 1>>]
           /\ sentLog = [k \in 1..n |-> <<1, k, 1>>]
           /\ drains = IF n = 0 THEN 0 ELSE 1
    /\ sample_rate \in 1..MaxRate
    /\ chan = [g \in Gens |-> <<>>]
    /\ wpc = [g \in Gens |-> IF g = 1 THEN "done" ELSE "unborn"]
    /\ wpos = [g \in Gens |-> 0]
    /\ gens = 1
    /\ wexit = [g \in Gens |-> IF g = 1 THEN "io" ELSE "none"]
    /\ skipped = 0
    /\ total_duration = 0
    /\ prevReceiver = None
    /\ pfReturned = FALSE
    /\ win = NoWindowCall
    /\ norm = NoNormCall
    /\ myapp = NewMyApp
    /\ lockLog = NoLockLog

NextWindow ==
    \/ \E progress_secs \in 0..MaxSecs, window_size_secs \in 0..MaxWindowSecs,
          checked \in BOOLEAN :
           GetVisibleWaveform(progress_secs, window_size_secs, checked)
    \/ \E progress_secs \in 0..MaxSecs, checked \in BOOLEAN :
           RenderWaveform(progress_secs, checked)

SpecWindow == InitWindow /\ [][NextWindow]_vars

\* The handlers of the track list and of the three buttons on their own:
\* the behaviours of the application in which time passes but no worker
\* thread is scheduled and update() finds nothing to drain.
NextButtons ==
    \/ \E f \in Files, m \in TrackMetas : PlayFileOk(f, m)
    \/ \E f \in Files : PlayFileErr(f)
    \/ PlayButtonResume
    \/ \E m \in TrackMetas : PlayButtonReplayOk(m)
    \/ PlayButtonReplayErr
    \/ PauseButton
    \/ StopButton
    \/ Tick

SpecButtons == Init /\ [][NextButtons]_vars

\* MyApp on its own: play_file() step by step, stop_audio(), and the clock.
NextMyApp ==
    \/ \E f \in Files : MyPlayFileBegin(f)
    \/ MyTryDefaultOk
    \/ MyTryDefaultPanic
    \/ MySinkTryNewOk
    \/ MySinkTryNewPanic
    \/ MyFileOpenOk
    \/ MyFileOpenPanic
    \/ MyDecoderNewOk
    \/ MyDecoderNewPanic
    \/ MyPlayFileCommit
    \/ MyStopAudio
    \/ Tick

SpecMyApp == Init /\ [][NextMyApp]_vars

\* The controller's methods with the sink mutex watched.
NextLocks ==
    \/ \E f \in Files : LockedPlay(f)
    \/ LockedPause
    \/ LockedResume
    \/ LockedStop
    \/ LockedIsPaused
    \/ LockedProgress
    \/ Tick

SpecLocks == Init /\ [][NextLocks]_vars

\* The normalizer on its own: one call of process_audio_buffer on a decoded
\* buffer of any format, channel count, frame count and content.
NextNormalizer ==
    \E fmt \in Formats, channels \in 0..MaxChannels, frames \in 0..MaxFrames :
        \E raws \in [1..channels -> Raws(fmt)] :
            ProcessAudioBuffer(fmt, channels, frames, raws)

SpecNormalizer == Init /\ [][NextNormalizer]_vars

\* ----------------------------------------------------------------- claims
\* No session is held and the clock is reset.
Stopped ==
    /\ _stream = None
    /\ stream_handle = None
    /\ sink = None
    /\ playing_file = None
    /\ start_time = None
    /\ pause_duration = 0

\* C1: after a successful play() and a well-formed alternation of pause()
\* (while running) and resume() (while paused), progress() is the wall-clock
\* time spent in the running segments; time spent paused adds nothing.
C1_ProgressIsRunningTime ==
    phase \in {"running", "paused"} => Progress = runTime

\* Ran 2, of which some before a pause that lasted 1: progress is 2, not 3.
C1_Witness ==
    /\ phase = "running"
    /\ runTime = 2
    /\ pausedTime = 1
    /\ pause_duration >= 1
    /\ Progress = 2

\* C2: in every state, the steps inside play() and the state after a failed
\* play() included, at most one output stream (and handle, and sink) is
\* alive, and when play() is about to construct the new output stream the
\* previous session's sink, handle and stream have been released.
C2_AtMostOneSession ==
    /\ Cardinality(AliveStreams) <= 1
    /\ Cardinality(AliveHandles) <= 1
    /\ Cardinality(AliveSinks) <= 1
    /\ pc = "try_default" => (_stream = None /\ stream_handle = None /\ sink = None)

\* play("B") has built its output stream after tearing a live session down.
C2_Witness ==
    /\ pc = "sink_try_new"
    /\ arg_file = Some("B")
    /\ stopFrom \in {"running", "paused"}
    /\ IsSome(l_stream)

\* C3: when a step of play() fails, play() returns an error and leaves the
\* controller Stopped, whatever its state was before the call.
C3_FailedPlayLeavesStopped ==
    (pc = "idle" /\ result = "err" /\ lastCall.op = "play") =>
        (Stopped /\ l_stream = None /\ l_handle = None /\ l_sink = None)

\* A play() issued over a live session has failed.
C3_Witness ==
    /\ pc = "idle"
    /\ result = "err"
    /\ lastCall.op = "play"
    /\ stopFrom \in {"running", "paused"}

\* C4: from stop() (or construction) until the next successful play(),
\* whatever pause()/resume() calls and time come in between, progress() is
\* zero and is_paused() is false; the same holds whenever no session exists.
C4_StoppedReadsZero ==
    (stopFrom # "live" \/ ~IsSome(sink)) => (Progress = 0 /\ ~IsPaused)

\* stop() found a paused session; later resume() was called and time passed.
C4_Witness ==
    /\ stopFrom = "paused"
    /\ lastCall = [op |-> "resume", from |-> "idle"]
    /\ pc = "idle"
    /\ now >= 2

\* C5: the start instant is present exactly when a session exists and its
\* sink is not paused; then progress() = accumulated + (now - start instant),
\* and otherwise progress() = accumulated.
C5_ClockAgreesWithSink ==
    /\ IsSome(start_time) <=> (IsSome(sink) /\ ~Unwrap(sink).paused)
    /\ IsSome(start_time) => Progress = pause_duration + (now - Unwrap(start_time))
    /\ ~IsSome(start_time) => Progress = pause_duration

\* A resumed session: accumulated time and a running segment both count.
C5_Witness ==
    /\ IsSome(sink)
    /\ IsSome(start_time)
    /\ pause_duration >= 1
    /\ now > Unwrap(start_time)
    /\ lastCall.op = "resume"

\* C6: resume() invoked while the session is running leaves the start
\* instant and the accumulated time unchanged, so progress() does not drop.
C6_ResumeWhileRunningKeepsClock ==
    [][(Resume /\ SinkState = "running") =>
          /\ start_time' = start_time
          /\ pause_duration' = pause_duration
          /\ Progress' >= Progress]_vars

\* C7: pause() invoked while already paused leaves the accumulated time and
\* the absent start instant unchanged, however much time passed since the
\* first pause().
C7_PauseWhilePausedKeepsClock ==
    [][(Pause /\ SinkState = "paused") =>
          /\ start_time = None
          /\ start_time' = None
          /\ pause_duration' = pause_duration
          /\ Progress' = Progress]_vars

\* A second pause() arrived after time had passed in the paused state.
C7_Witness ==
    /\ lastCall = [op |-> "pause", from |-> "paused"]
    /\ pausedTime >= 1
    /\ pause_duration >= 1

\* C8: with no session, pause() and resume() leave every field of the
\* controller unchanged.
C8_NoSessionPauseResumeNoOp ==
    [][((Pause \/ Resume) /\ SinkState = "idle") => UNCHANGED playerVars]_vars

\* resume() was called with no session, after a running session was stopped.
C8_Witness ==
    /\ lastCall = [op |-> "resume", from |-> "idle"]
    /\ stopFrom = "running"
    /\ now >= 1

\* Sample a was decoded before sample b (same worker).
DecodedBefore(a, b) == a[2] < b[2] \/ (a[2] = b[2] /\ a[3] < b[3])

\* C9: between two generate_for() calls the buffer is a prefix of the
\* worker's chunks concatenated in send order, whatever the interleaving of
\* sends and update_buffer() calls: buffer plus what the channel still holds
\* is exactly what was sent, and the buffer is in decode order.
C9_BufferIsPrefixOfSent ==
    IsSome(receiver) =>
        /\ buffer \o Flatten(chan[Unwrap(receiver)]) = sentLog
        /\ \A i, j \in DOMAIN buffer : i < j => DecodedBefore(buffer[i], buffer[j])

\* Two update_buffer() calls each appended a chunk.
C9_Witness ==
    /\ drains = 2
    /\ Len(buffer) >= 2
    /\ buffer[1][2] # buffer[Len(buffer)][2]

\* C10: after play_file() returns, successfully or not, the buffer holds no
\* sample of the previously loaded track and its receiver has been replaced.
C10_PlayFileDiscardsPrevious ==
    (pfReturned /\ IsSome(prevReceiver)) =>
        /\ receiver # prevReceiver
        /\ \A i \in DOMAIN buffer : buffer[i][1] # Unwrap(prevReceiver)

\* Worker g is still running although its Receiver has been dropped.
Abandoned(g) == wpc[g] \in {"setup", "next_packet", "decode"} /\ ~ReceiverAlive(g)

C12_FailedSendEndsWorker ==
    [][\A g \in Gens :
          /\ ((\E n \in ChunkSizes \ {0} : WorkerDecodeOk(g, n)) /\ ~ReceiverAlive(g)) =>
                 /\ wpc'[g] = "done"
                 /\ wexit'[g] = "send"
                 /\ chan' = chan
                 /\ sentLog' = sentLog
          /\ wpc[g] = "done" =>
                 /\ wpc'[g] = "done"
                 /\ wpos'[g] = wpos[g]
                 /\ wexit'[g] = wexit[g]
                 /\ Len(chan'[g]) <= Len(chan[g])]_vars

\* Worker 1 was ended by a send that failed after generate_for replaced its
\* receiver.
C12_Witness ==
    /\ wexit[1] = "send"
    /\ wpc[1] = "done"
    /\ receiver = Some(2)

\* C13 as stated: any error from next_packet() ends the worker.
C13_AnyReaderErrorStops ==
    [][\A g \in Gens :
          (WorkerNextPacketIoError(g) \/ WorkerNextPacketOtherError(g)) =>
              wpc'[g] = "done"]_vars

\* C13: an Error::IoError from next_packet() (the end of the stream included)
\* ends the worker, which then never calls the reader again; every other
\* error from next_packet() is skipped like a decode error and the loop asks
\* for the next packet.
C13_IoErrorStopsOthersSkipped ==
    [][\A g \in Gens :
          /\ WorkerNextPacketIoError(g) => (wpc'[g] = "done" /\ wexit'[g] = "io")
          /\ WorkerNextPacketOtherError(g) =>
                 (wpc'[g] = "next_packet" /\ wexit'[g] = "none" /\ chan' = chan)
          /\ wexit[g] = "io" => (wpc'[g] = "done" /\ wpos'[g] = wpos[g])]_vars

\* The current worker sent a chunk and was then stopped by an I/O error.
C13_Witness ==
    \E g \in Gens :
        /\ ReceiverAlive(g)
        /\ wexit[g] = "io"
        /\ sentLog # <<>>

\* C14: a packet that fails to decode sends nothing and does not end the
\* loop; every later packet that decodes to a non-empty chunk is still sent,
\* and what was sent is in stream order.
C14_DecodeErrorSkipsPacket ==
    /\ [](/\ skipped # 0 => \A i \in DOMAIN sentLog : sentLog[i][2] # skipped
          /\ \A i, j \in DOMAIN sentLog :
                 i < j => DecodedBefore(sentLog[i], sentLog[j]))
    /\ [][\A g \in Gens :
             /\ WorkerDecodeError(g) =>
                    (wpc'[g] = "next_packet" /\ chan' = chan /\ sentLog' = sentLog)
             /\ \A n \in ChunkSizes \ {0} :
                    (WorkerDecodeOk(g, n) /\ ReceiverAlive(g)) =>
                        /\ chan'[g] = Append(chan[g], Chunk(g, wpos[g], n))
                        /\ sentLog' = sentLog \o Chunk(g, wpos[g], n)]_vars

\* Packet 1 failed to decode and a chunk of packet 2 was sent after it.
C14_Witness ==
    /\ skipped = 1
    /\ sentLog # <<>>
    /\ \A i \in DOMAIN sentLog : sentLog[i][2] = 2

\* C15: a worker whose open, probe, track lookup or decoder construction
\* fails returns without having sent anything; while it is the current
\* worker the buffer stays empty; its return leaves the playback session and
\* the clock as they were.
C15_SetupFailureIsSilent ==
    /\ [](\A g \in Gens :
             wexit[g] = "setup" =>
                 /\ wpc[g] = "done"
                 /\ chan[g] = <<>>
                 /\ ReceiverAlive(g) => (buffer = <<>> /\ sentLog = <<>>))
    /\ [][\A g \in Gens :
             (wpc[g] = "setup" /\ wpc'[g] = "done") =>
                 /\ wexit'[g] = "setup"
                 /\ UNCHANGED <<playerVars, now, chan, buffer>>
                 /\ Progress' = Progress
                 /\ IsPaused' = IsPaused]_vars

\* The worker of the track being played gave up in setup; frames have been
\* drawn since and the session is still running.
C15_Witness ==
    \E g \in Gens :
        /\ ReceiverAlive(g)
        /\ wexit[g] = "setup"
        /\ SinkState = "running"
        /\ ~pfReturned

\* The current worker has got past its setup.
InLoop(g) == wpc[g] \in {"next_packet", "decode"} \/ wexit[g] \in {"io", "decode", "send"}

\* Messages the current worker sent before it read any packet.
RateAnnouncements == {i \in DOMAIN sentLog : sentLog[i][2] = 0}

\* C16: when the codec parameters carry a sample rate, the worker sends a
\* rate announcement exactly once, before the first data chunk.
C16_RateAnnouncedOnce ==
    \A g \in Gens :
        (ReceiverAlive(g) /\ IsSome(TrackRate(g)) /\ InLoop(g)) =>
            RateAnnouncements = {1}

\* C17: the stored sample rate is 44100 until the real value arrives; once
\* update_buffer() has drained messages of a track whose codec parameters
\* carry the rate R, get_sample_rate() returns R.
C17_SampleRateFollowsTrack ==
    /\ ~IsSome(receiver) => GetSampleRate = 44100
    /\ \A g \in Gens :
           (ReceiverAlive(g) /\ IsSome(TrackRate(g)) /\ drains >= 1) =>
               GetSampleRate = Unwrap(TrackRate(g))

\* The samples of the buffer at the indices lo..hi-1 (counted from 0) that
\* exist.
BufferPart(lo, hi) ==
    SubSeq(buffer, (IF lo < 0 THEN 0 ELSE lo) + 1, Min(hi, Len(buffer)))

\* C18: whatever the centre and the window length, the window accessor
\* returns the samples of a range [start, end) of the buffer with
\* 0 <= start <= end <= N and end - start <= window length, and it returns
\* the empty slice when N = 0 or start >= end.
C18_WindowWithinBuffer ==
    win.fn # "none" =>
        /\ ~win.panicked
        /\ \E lo, hi \in 0..Len(buffer) :
               /\ lo <= hi
               /\ hi - lo <= win.visible_length_samples
               /\ win.slice = SubSeq(buffer, lo + 1, hi)
        /\ win.start_idx < win.end_idx =>
               /\ win.end_idx <= Len(buffer)
               /\ win.slice = SubSeq(buffer, win.start_idx + 1, win.end_idx)
        /\ (Len(buffer) = 0 \/ win.start_idx >= win.end_idx) => win.slice = <<>>

\* C19: for every centre and window length of the word range, the centre
\* saturated at usize::MAX included, start_idx + visible_length_samples stays
\* inside the word range, and a window that starts past the end of the
\* buffer comes back as the empty slice.
C19_WindowArithmeticSaturates ==
    win.fn # "none" =>
        /\ win.start_idx + win.visible_length_samples <= WordMax
        /\ ~win.panicked
        /\ win.start_idx >= Len(buffer) => win.slice = <<>>

\* C20: with c the centre and w the window length, the accessor returns
\* exactly the samples of [c - w/2, c - w/2 + w) that lie in [0, N), also
\* when c is closer than w/2 to the start of the buffer.
C20_WindowIsCentredInterval ==
    win.fn # "none" =>
        /\ ~win.panicked
        /\ win.slice =
               BufferPart(win.samples_played - win.visible_length_samples \div 2,
                          win.samples_played - win.visible_length_samples \div 2
                              + win.visible_length_samples)

\* Two quotients with nonzero denominators stand for the same number.  Every
\* pair compared below shares its numerator or its denominator, where this
\* test is exact.
SameValue(a, b) ==
    /\ ~IsNaN(a) /\ ~IsNaN(b)
    /\ \/ a.num = b.num /\ a.den = b.den
       \/ a.num = WZero /\ b.num = WZero

\* The value lies in [-1, 1].
InUnitRange(v) ==
    /\ ~IsNaN(v)
    /\ WLeq(WSub(WZero, v.den), v.num)
    /\ WLeq(v.num, v.den)

\* Every channel of the frame holds the raw sample r.
FrameIsAll(fr, r) == \A ch \in 1..norm.channels : norm.planes[ch][fr] = r

\* The mean over the channels of (raw - sub) / div.
MeanOf(fr, sub, dv) ==
    [num |-> WSum([ch \in 1..norm.channels |-> WSub(norm.planes[ch][fr], sub)]),
     den |-> WScale(dv, norm.channels)]

\* C21: for every signed integer width N in {8, 16, 24, 32} the normalizer
\* maps a raw sample to raw / (2^(N-1) - 1), the raw value over the greatest
\* positive value of the width (127, 32767, 8388607, 2147483647).
C21_SignedDividesByMaxPositive ==
    (norm.fn # "none" /\ IsSigned(norm.format) /\ norm.channels >= 1) =>
        \A frame \in 1..norm.frames :
            SameValue(norm.chunk[frame],
                      MeanOf(frame, WZero, WSub(WPow2(Bits(norm.format) - 1), W(1))))

\* C22: for every unsigned integer width N the normalizer maps a raw sample
\* to (raw - 2^(N-1)) / 2^(N-1); a frame of unsigned zeros comes out as
\* exactly -1, a frame of unsigned midpoints as exactly 0, and a frame of
\* signed zeros as 0.
C22_UnsignedCentredOnMidpoint ==
    (norm.fn # "none" /\ norm.channels >= 1) =>
        \A frame \in 1..norm.frames :
            LET out == norm.chunk[frame]
                mid == WPow2(Bits(norm.format) - 1)
            IN /\ IsUnsigned(norm.format) =>
                      /\ SameValue(out, MeanOf(frame, mid, mid))
                      /\ FrameIsAll(frame, WZero) =>
                             ~IsNaN(out) /\ out.num = WSub(WZero, out.den)
                      /\ FrameIsAll(frame, mid) => ~IsNaN(out) /\ out.num = WZero
               /\ (IsSigned(norm.format) /\ FrameIsAll(frame, WZero)) =>
                      ~IsNaN(out) /\ out.num = WZero

C22_Witness ==
    /\ norm.fn # "none"
    /\ norm.format = "U32"
    /\ norm.channels = 2
    /\ norm.frames >= 1
    /\ FrameIsAll(1, WZero)
    /\ norm.chunk[1].num = WSub(WZero, norm.chunk[1].den)

\* C23: for every integer format, every channel count of at least one and
\* every raw sample, each output value (the mean over the channels) lies in
\* [-1, 1], except possibly when a signed sample holds the most negative
\* value of its width.
C23_OutputsWithinUnitRange ==
    (norm.fn # "none" /\ norm.format \in IntFormats /\ norm.channels >= 1) =>
        \A frame \in 1..norm.frames :
            \/ InUnitRange(norm.chunk[frame])
            \/ /\ IsSigned(norm.format)
               /\ \E ch \in 1..norm.channels :
                      norm.planes[ch][frame] = RawMin(norm.format)

C23_Witness ==
    /\ norm.fn # "none"
    /\ norm.format = "S16"
    /\ norm.channels = 2
    /\ norm.frames >= 1
    /\ FrameIsAll(1, RawMax("S16"))
    /\ norm.chunk[1].num = norm.chunk[1].den

\* C24: the normalizer returns an empty output for a buffer with no channel,
\* whatever its frame count, and for a buffer with no frame; in neither case
\* is a message sent on the channel.
C24_NoChannelOrNoFrameGivesNothing ==
    (norm.fn # "none" /\ (norm.channels = 0 \/ norm.frames = 0)) =>
        norm.chunk = <<>> /\ ~norm.sent

\* C25: after every play_file() that succeeds, the total duration is the
\* track's frame count divided by its sample rate when the first track
\* declares both, and the fallback of 180 seconds in every other case: file
\* unreadable, probe failure, no track, or a missing field.
C25_DurationOrFallback ==
    [][\A f \in Files, m \in TrackMetas :
          PlayFileOk(f, m) =>
              /\ pfReturned' /\ result' = "ok"
              /\ IF m.found = "track" /\ m.n_frames # None /\ m.sample_rate # None
                 THEN total_duration' * m.sample_rate[1] = m.n_frames[1] * 1000
                 ELSE total_duration' = 180 * 1000]_vars

C25_Witness ==
    /\ pfReturned /\ result = "ok"
    /\ total_duration = 180 * 1000
    /\ gens = 2

\* C26: MyApp keeps the session discipline of the controller: in any
\* sequence of play_file() and stop_audio() calls at most one output stream
\* is alive at any moment, play_file() releasing the previous stream and
\* handle before it creates the new ones, and stop_audio() leaves no stream,
\* no handle and no sink behind.
C26_MyAppSessionDiscipline ==
    /\ Cardinality(MyAliveStreams) <= 1
    /\ Cardinality(MyAliveHandles) <= 1
    /\ (myapp.pc = "idle" /\ myapp.last = "stop_audio") =>
           /\ myapp._stream = None
           /\ myapp.stream_handle = None
           /\ myapp.sink = None

\* C27: once generate_for(B) has returned, no chunk produced by the worker
\* of an earlier track reaches the buffer, under any interleaving of that
\* worker's sends with update_buffer(): every sample in the buffer was
\* produced by the worker of B.
C27_BufferHoldsCurrentTrackOnly ==
    IsSome(receiver) =>
        \A i \in DOMAIN buffer : buffer[i][1] = Unwrap(receiver)

\* The worker of the first track is still decoding while samples of the
\* second are in the buffer.
C27_Witness ==
    /\ receiver = Some(2)
    /\ wpc[1] \notin {"unborn", "done"}
    /\ wpos[1] >= 1
    /\ Len(buffer) >= 1

SinkCalls == {"sink.pause", "sink.play", "sink.stop", "sink.is_paused"}
ClockAccesses == {"read start_time", "read pause_duration",
                  "write start_time", "write pause_duration"}

\* The mutex is held when event i of the latest call happens.
HeldAt(i) ==
    LET before == 1..(i - 1)
        ev == lockLog.events
    IN Cardinality({j \in before : ev[j] = "lock"})
           > Cardinality({j \in before : ev[j] = "unlock"})

\* C28: every control operation on the sink (pause, play, stop, is_paused)
\* is made holding the sink mutex; every critical section is exactly one
\* sink method call, with no clock field read or written while the lock is
\* held; and the lock is released by the time each method returns.
C28_CriticalSectionIsOneSinkCall ==
    LET ev == lockLog.events
    IN /\ \A i \in DOMAIN ev : ev[i] \in SinkCalls => HeldAt(i)
       /\ \A i \in DOMAIN ev :
              ev[i] = "lock" =>
                  /\ i + 2 <= Len(ev)
                  /\ ev[i + 1] \in SinkCalls
                  /\ ev[i + 2] = "unlock"
       /\ \A i \in DOMAIN ev : ev[i] \in ClockAccesses => ~HeldAt(i)
       /\ ~HeldAt(Len(ev) + 1)

\* C29: while one session is alive, progress() never decreases, whatever
\* sequence of pause() and resume() calls is made, in any order, repeated
\* ones made while already paused or already running included.
C29_ProgressNeverDecreases ==
    [][(IsSome(sink) /\ IsSome(sink') /\ _stream' = _stream)
           => Progress' >= Progress]_vars

\* C30: between method calls the session fields of the controller (stream,
\* handle, sink, current file) are all Some or all None, and when they are
\* None the start instant is absent and the accumulated time is zero.
C30_SessionFieldsAllOrNone ==
    pc = "idle" =>
        /\ \/ /\ IsSome(_stream) /\ IsSome(stream_handle)
              /\ IsSome(sink) /\ IsSome(playing_file)
           \/ /\ _stream = None /\ stream_handle = None
              /\ sink = None /\ playing_file = None
        /\ sink = None => (start_time = None /\ pause_duration = 0)

\* A stop() has just ended a paused session that had accumulated time.
C30_Witness ==
    /\ pc = "idle"
    /\ lastCall = [op |-> "stop", from |-> "paused"]
    /\ sink = None
    /\ pausedTime = 0
    /\ now >= 2

\* C31: if no other track is selected and update_buffer() keeps being called,
\* the buffer eventually equals the concatenation of all non-empty chunks the
\* worker produced up to its termination, the chunks still queued when the
\* worker had returned and dropped its Sender included: no sent chunk is
\* lost.  Tracks are selected finitely often, so from some point on the
\* worker of the last one has returned, its channel is empty and the buffer
\* is everything it sent.
C31_BufferEventuallyHoldsAllSent ==
    <>[](IsSome(receiver) =>
            /\ wpc[Unwrap(receiver)] = "done"
            /\ chan[Unwrap(receiver)] = <<>>
            /\ buffer = sentLog)

\* The worker has read its stream to the end and returned; one single
\* update_buffer() call brought in the chunks of two packets.
C31_Witness ==
    /\ IsSome(receiver)
    /\ wpc[Unwrap(receiver)] = "done"
    /\ wexit[Unwrap(receiver)] = "io"
    /\ drains = 1
    /\ buffer = sentLog
    /\ Len(buffer) >= 2
    /\ buffer[1][2] # buffer[Len(buffer)][2]

\* C32: through the buttons, resume() is invoked only while a session exists
\* and its sink is paused.  The Play button resumes a paused session (same
\* track, same accumulated time, same waveform worker, clock restarted now);
\* on a running session it plays the current track again: a new session of
\* the same track at progress zero with a new waveform worker, or, when
\* play() fails, no session at all; with no track loaded, as after Stop, it
\* has no effect.
C32_PlayButtonResumesOnlyWhenPaused ==
    [][ /\ PlayButtonResume =>
              /\ SinkState = "paused"
              /\ SinkState' = "running"
              /\ playing_file' = playing_file
              /\ pause_duration' = pause_duration
              /\ start_time' = Some(now)
              /\ receiver' = receiver
        /\ \A m \in TrackMetas :
              PlayButtonReplayOk(m) =>
                  /\ SinkState = "running"
                  /\ SinkState' = "running"
                  /\ playing_file' = playing_file
                  /\ Progress' = 0
                  /\ receiver' = Some(gens + 1)
                  /\ receiver' # receiver
                  /\ wpc'[gens + 1] = "setup"
        /\ PlayButtonReplayErr =>
              /\ SinkState = "running"
              /\ SinkState' = "idle"
        /\ ~IsSome(CurrentFile) =>
              /\ SinkState = "idle"
              /\ ~ENABLED PlayButtonResume
              /\ ~ENABLED (\E m \in TrackMetas : PlayButtonReplayOk(m))
              /\ ~ENABLED PlayButtonReplayErr
      ]_vars

\* A session that runs with time accumulated before a pause: the Play button
\* resumed it (play() starts every session with nothing accumulated).
C32_Witness ==
    /\ SinkState = "running"
    /\ IsSome(playing_file)
    /\ pause_duration > 0
    /\ start_time = Some(now)
    /\ ~pfReturned
====
